---- MODULE Spec2Model ----
(***************************************************************************)
(* Model of SASformat_conv.py: one press of the "Convert File(s)" button.  *)
(* The script runs top to bottom on each press; the model follows the     *)
(* control flow of lines 81-263 with one action per branch or step.       *)
(*                                                                         *)
(* File names are tuples of one-character strings so that the glob        *)
(* pattern, Path.stem and the case folding can be computed character by   *)
(* character.  Display-only calls (st.subheader, st.write, progress bar,  *)
(* status text) carry no state and are left out; st.info / st.error /     *)
(* st.warning / st.success calls are appended to ui.                      *)
(***************************************************************************)
EXTENDS Integers, Sequences, FiniteSets, TLC

\* ---------------------------------------------------------------- bounds
MaxFiles == 3

\* ------------------------------------------------------------ file names
N_b      == <<"b", ".", "x", "p", "t">>
N_A      == <<"A", ".", "x", "p", "t">>
N_a      == <<"a", ".", "X", "P", "T">>
N_ax     == <<"a", ".", "x", "p", "t">>
N_dxpt   == <<"d", "x", "p", "t">>
N_atxpt  == <<"a", ".", "t", "x", "p", "t">>
N_hidden == <<".", "h", ".", "x", "p", "t">>
N_v1     == <<"d", ".", "v", ".", "x", "p", "t">>
N_txt    == <<"n", ".", "t", "x", "t">>

DirNames == {N_b, N_A, N_a, N_ax, N_dxpt, N_atxpt, N_hidden, N_v1, N_txt}

\* st.sidebar.file_uploader(type=['xpt', 'XPT']) only lets such names through
UploadNames == {N_b, N_a, N_v1}

None == <<"None">>

\* All listings a directory of at most n entries can be enumerated in:
\* every set of distinct names, in every order (os.scandir order is arbitrary).
RECURSIVE Listings(_)
Listings(n) ==
    IF n = 0 THEN {<<>>}
    ELSE LET prev == Listings(n - 1)
         IN  prev \cup {Append(s, x) : s \in {p \in prev : Len(p) = n - 1},
                                       x \in DirNames}

Distinct(s) == \A j, k \in 1..Len(s) : j # k => s[j] # s[k]

\* ------------------------------------------------------- pure functions
\* fnmatch of a name against '[!.]*[xX][pP][tT]'
GlobMatch(name) ==
    /\ Len(name) >= 4
    /\ name[1] # "."
    /\ name[Len(name) - 2] \in {"x", "X"}
    /\ name[Len(name) - 1] \in {"p", "P"}
    /\ name[Len(name)] \in {"t", "T"}

\* list(input_path.glob(pattern)): the matching entries, in enumeration order
Glob(entries) == SelectSeq(entries, GlobMatch)

\* position of the last "." of a name, 0 when there is none (str.rfind + 1)
LastDot(name) ==
    LET dots == {k \in 1..Len(name) : name[k] = "."}
    IN  IF dots = {} THEN 0 ELSE CHOOSE k \in dots : \A m \in dots : m <= k

\* PurePath.stem: the name without its last suffix; a leading or trailing
\* dot does not start a suffix
Stem(name) ==
    LET k == LastDot(name)
    IN  IF 1 < k /\ k < Len(name) THEN SubSeq(name, 1, k - 1) ELSE name

\* f"{base_filename}.sas7bdat"
OutputFilename(name) == Stem(name) \o <<".", "sas7bdat">>

\* ----------------------------------------------------------------- state
VARIABLES
    conversion_mode,   \* st.sidebar.radio value
    output_dir_str,    \* output directory text field, "" when left empty
    input_dir_str,     \* input directory text field ("" in single-file mode)
    uploaded_file,     \* name of the uploaded file, or None
    inputKind,         \* what input_dir_str names on disk: "missing", "file", "dir"
    dirEntries,        \* the input directory's entries, in enumeration order
    pc,                \* position of the script inside the button handler
    valid_output_dir,
    valid_input_dir,
    outputDirMade,     \* output_path.mkdir (line 92) returned in this press
    globbed,           \* input_path.glob (line 118) returned in this press
    xpt_files,
    i,                 \* number of loop iterations completed
    success_count,
    error_count,
    error_details,
    calls,             \* codec calls of this press: [file, raised]
    outFiles,          \* names of the files written under the output directory
    status_text_bound, \* the name status_text is bound (line 212)
    temp_file_path,    \* None, or "tmp" once line 218 assigned it
    tempFiles,         \* temporary files of this press that exist on disk
    removeFailed,      \* os.remove (line 261) raised
    pending,           \* an exception is being handled in single-file mode
    escaped,           \* an exception propagated out of the button handler
    ui                 \* st.info / st.error / st.warning / st.success calls

vars == <<conversion_mode, output_dir_str, input_dir_str, uploaded_file,
          inputKind, dirEntries, pc, valid_output_dir, valid_input_dir,
          outputDirMade, globbed, xpt_files, i, success_count, error_count,
          error_details, calls, outFiles, status_text_bound, temp_file_path,
          tempFiles, removeFailed, pending, escaped, ui>>

inputs == <<conversion_mode, output_dir_str, input_dir_str, uploaded_file,
            inputKind, dirEntries>>

dirVars == <<valid_input_dir, globbed, xpt_files, i, success_count,
             error_count, error_details>>

singleVars == <<status_text_bound, temp_file_path, tempFiles, removeFailed,
                pending>>

Say(msg) == ui' = Append(ui, msg)

\* lines 40-77 (widgets) and 84-85 (handler entry)
Init ==
    /\ conversion_mode \in {"Convert Directory", "Convert Single File"}
    /\ output_dir_str \in {"", "out"}
    /\ IF conversion_mode = "Convert Directory"
       THEN /\ input_dir_str \in {"", "in"}
            /\ uploaded_file = None
            /\ inputKind \in {"missing", "file", "dir"}
            /\ dirEntries \in (IF inputKind = "dir" /\ input_dir_str # ""
                               THEN Listings(MaxFiles) ELSE {<<>>})
            /\ Distinct(dirEntries)
       ELSE /\ input_dir_str = ""
            /\ uploaded_file \in UploadNames \cup {None}
            /\ inputKind = "missing"
            /\ dirEntries = <<>>
    /\ pc = "validate_output"
    /\ valid_output_dir = FALSE
    /\ valid_input_dir = FALSE
    /\ outputDirMade = FALSE
    /\ globbed = FALSE
    /\ xpt_files = <<>>
    /\ i = 0
    /\ success_count = 0
    /\ error_count = 0
    /\ error_details = <<>>
    /\ calls = <<>>
    /\ outFiles = {}
    /\ status_text_bound = FALSE
    /\ temp_file_path = None
    /\ tempFiles = {}
    /\ removeFailed = FALSE
    /\ pending = FALSE
    /\ escaped = FALSE
    /\ ui = <<>>

\* ------------------------------------------ output directory (both modes)
\* line 98 and the mode dispatch of lines 100 / 193
AfterOutputValidation(valid) ==
    IF ~valid THEN "done"
    ELSE IF conversion_mode = "Convert Directory" THEN "validate_input"
    ELSE "single_input"

\* lines 86-87
OutputDirMissing ==
    /\ pc = "validate_output"
    /\ output_dir_str = ""
    /\ Say("error: output directory required")
    /\ valid_output_dir' = FALSE
    /\ pc' = AfterOutputValidation(FALSE)
    /\ UNCHANGED <<inputs, dirVars, singleVars, outputDirMade, calls,
                   outFiles, escaped>>

\* lines 89-94: mkdir(parents=True, exist_ok=True) returns
OutputDirCreated ==
    /\ pc = "validate_output"
    /\ output_dir_str # ""
    /\ outputDirMade' = TRUE
    /\ Say("info: output directory set")
    /\ valid_output_dir' = TRUE
    /\ pc' = AfterOutputValidation(TRUE)
    /\ UNCHANGED <<inputs, dirVars, singleVars, calls, outFiles, escaped>>

OutputDirInvalid_Accepted ==
    /\ pc = "validate_output"
    /\ output_dir_str # ""
    /\ Say("error: invalid output directory")
    /\ valid_output_dir' = TRUE
    /\ pc' = AfterOutputValidation(TRUE)
    /\ UNCHANGED <<inputs, dirVars, singleVars, outputDirMade, calls,
                   outFiles, escaped>>

\* lines 89-92, 95-96: mkdir raises
OutputDirInvalid ==
    /\ pc = "validate_output"
    /\ output_dir_str # ""
    /\ Say("error: invalid output directory")
    /\ valid_output_dir' = FALSE
    /\ pc' = AfterOutputValidation(FALSE)
    /\ UNCHANGED <<inputs, dirVars, singleVars, outputDirMade, calls,
                   outFiles, escaped>>

\* -------------------------------------------------------- directory mode
\* lines 102-104
InputDirMissing ==
    /\ pc = "validate_input"
    /\ input_dir_str = ""
    /\ Say("error: input directory required")
    /\ pc' = "done"
    /\ UNCHANGED <<inputs, dirVars, singleVars, valid_output_dir,
                   outputDirMade, calls, outFiles, escaped>>

InputDirNotADirectory_Accepted ==
    /\ pc = "validate_input"
    /\ input_dir_str # ""
    /\ inputKind # "dir"
    /\ valid_input_dir' = TRUE
    /\ Say("info: input directory set")
    /\ pc' = "resolve"
    /\ UNCHANGED <<inputs, singleVars, valid_output_dir, outputDirMade,
                   globbed, xpt_files, i, success_count, error_count,
                   error_details, calls, outFiles, escaped>>

\* lines 106-108
InputDirNotADirectory ==
    /\ pc = "validate_input"
    /\ input_dir_str # ""
    /\ inputKind # "dir"
    /\ Say("error: input path is not a directory")
    /\ pc' = "done"
    /\ UNCHANGED <<inputs, dirVars, singleVars, valid_output_dir,
                   outputDirMade, calls, outFiles, escaped>>

\* lines 106-107, 109-113
InputDirValid ==
    /\ pc = "validate_input"
    /\ input_dir_str # ""
    /\ inputKind = "dir"
    /\ valid_input_dir' = TRUE
    /\ Say("info: input directory set")
    /\ pc' = "resolve"
    /\ UNCHANGED <<inputs, singleVars, valid_output_dir, outputDirMade,
                   globbed, xpt_files, i, success_count, error_count,
                   error_details, calls, outFiles, escaped>>

\* lines 116-118, 190-191: the directory scan raises
GlobFails ==
    /\ pc = "resolve"
    /\ Say("error: unexpected error during directory conversion")
    /\ pc' = "done"
    /\ UNCHANGED <<inputs, dirVars, singleVars, valid_output_dir,
                   outputDirMade, calls, outFiles, escaped>>

NoFilesFound_AsError ==
    /\ pc = "resolve"
    /\ Glob(dirEntries) = <<>>
    /\ globbed' = TRUE
    /\ xpt_files' = Glob(dirEntries)
    /\ Say("error: no xpt files found")
    /\ pc' = "done"
    /\ UNCHANGED <<inputs, singleVars, valid_output_dir, valid_input_dir,
                   outputDirMade, i, success_count, error_count,
                   error_details, calls, outFiles, escaped>>

\* lines 116-121
NoFilesFound ==
    /\ pc = "resolve"
    /\ Glob(dirEntries) = <<>>
    /\ globbed' = TRUE
    /\ xpt_files' = Glob(dirEntries)
    /\ Say("warning: no xpt files found")
    /\ pc' = "done"
    /\ UNCHANGED <<inputs, singleVars, valid_output_dir, valid_input_dir,
                   outputDirMade, i, success_count, error_count,
                   error_details, calls, outFiles, escaped>>

\* lines 116-120, 122-130
FilesFound ==
    /\ pc = "resolve"
    /\ Glob(dirEntries) # <<>>
    /\ globbed' = TRUE
    /\ xpt_files' = Glob(dirEntries)
    /\ i' = 0
    /\ success_count' = 0
    /\ error_count' = 0
    /\ error_details' = <<>>
    /\ pc' = "loop"
    /\ UNCHANGED <<inputs, singleVars, valid_output_dir, valid_input_dir,
                   outputDirMade, calls, outFiles, escaped, ui>>

\* line 132: the for statement goes on while items remain
AfterItem(done) == IF done < Len(xpt_files) THEN "loop" ELSE "summary"

\* lines 132-159, 174: read_xport and write_sas7bdat both return
ConvertItemOk ==
    /\ pc = "loop"
    /\ LET xpt_file_path == xpt_files[i + 1]
       IN  /\ calls' = Append(calls, [file |-> xpt_file_path, raised |-> "none"])
           /\ outFiles' = outFiles \cup {OutputFilename(xpt_file_path)}
    /\ Say("success: converted")
    /\ success_count' = success_count + 1
    /\ i' = i + 1
    /\ pc' = AfterItem(i + 1)
    /\ UNCHANGED <<inputs, singleVars, valid_output_dir, valid_input_dir,
                   outputDirMade, globbed, xpt_files, error_count,
                   error_details, escaped>>

\* without the inner try (lines 139, 161) the exception reaches line 190
ConvertItemFails_Abort ==
    /\ pc = "loop"
    /\ \E raised \in {"read_xport", "write_sas7bdat"} :
           calls' = Append(calls, [file |-> xpt_files[i + 1], raised |-> raised])
    /\ Say("error: unexpected error during directory conversion")
    /\ pc' = "done"
    /\ UNCHANGED <<inputs, dirVars, singleVars, valid_output_dir,
                   outputDirMade, outFiles, escaped>>

\* without line 170
ConvertItemFails_NoCount ==
    /\ pc = "loop"
    /\ \E raised \in {"read_xport", "write_sas7bdat"} :
           calls' = Append(calls, [file |-> xpt_files[i + 1], raised |-> raised])
    /\ Say("error: converting")
    /\ error_details' = Append(error_details, xpt_files[i + 1])
    /\ i' = i + 1
    /\ pc' = AfterItem(i + 1)
    /\ UNCHANGED <<inputs, singleVars, valid_output_dir, valid_input_dir,
                   outputDirMade, globbed, xpt_files, success_count,
                   error_count, outFiles, escaped>>

\* lines 132-143 or 132-156, then 161-174: one of the two codec calls raises
ConvertItemFails ==
    /\ pc = "loop"
    /\ \E raised \in {"read_xport", "write_sas7bdat"} :
           calls' = Append(calls, [file |-> xpt_files[i + 1], raised |-> raised])
    /\ Say("error: converting")
    /\ error_count' = error_count + 1
    /\ error_details' = Append(error_details, xpt_files[i + 1])
    /\ i' = i + 1
    /\ pc' = AfterItem(i + 1)
    /\ UNCHANGED <<inputs, singleVars, valid_output_dir, valid_input_dir,
                   outputDirMade, globbed, xpt_files, success_count,
                   outFiles, escaped>>

\* lines 176-188
Summary ==
    /\ pc = "summary"
    /\ ui' = ui \o <<"success: summary count">>
                \o (IF error_count > 0 THEN <<"error: files with errors">>
                    ELSE IF success_count > 0 THEN <<"info: no errors">>
                    ELSE <<>>)
    /\ pc' = "done"
    /\ UNCHANGED <<inputs, dirVars, singleVars, valid_output_dir,
                   outputDirMade, calls, outFiles, escaped>>

\* ------------------------------------------------------ single-file mode
\* lines 195-196
NoUpload ==
    /\ pc = "single_input"
    /\ uploaded_file = None
    /\ Say("error: upload required")
    /\ pc' = "done"
    /\ UNCHANGED <<inputs, dirVars, singleVars, valid_output_dir,
                   outputDirMade, calls, outFiles, escaped>>

\* lines 197-202
UploadPresent ==
    /\ pc = "single_input"
    /\ uploaded_file # None
    /\ Say("info: output will be saved")
    /\ temp_file_path' = None
    /\ pc' = "single_mkdir"
    /\ UNCHANGED <<inputs, dirVars, valid_output_dir, outputDirMade, calls,
                   outFiles, escaped, status_text_bound, tempFiles,
                   removeFailed, pending>>

\* lines 203-205, 247: the second mkdir raises, control enters the except
\* clause with status_text not yet bound
SingleMkdirFails ==
    /\ pc = "single_mkdir"
    /\ pending' = TRUE
    /\ pc' = "single_except"
    /\ UNCHANGED <<inputs, dirVars, valid_output_dir, outputDirMade, calls,
                   outFiles, escaped, status_text_bound, temp_file_path,
                   tempFiles, removeFailed, ui>>

\* lines 203-213: mkdir returns, output path prepared, status_text bound
SinglePrepare ==
    /\ pc = "single_mkdir"
    /\ status_text_bound' = TRUE
    /\ pc' = "single_temp"
    /\ UNCHANGED <<inputs, dirVars, valid_output_dir, outputDirMade, calls,
                   outFiles, escaped, temp_file_path, tempFiles,
                   removeFailed, pending, ui>>

\* line 216: NamedTemporaryFile itself raises, no file is created
TempCreateFails ==
    /\ pc = "single_temp"
    /\ pending' = TRUE
    /\ pc' = "single_except"
    /\ UNCHANGED <<inputs, dirVars, valid_output_dir, outputDirMade, calls,
                   outFiles, escaped, status_text_bound, temp_file_path,
                   tempFiles, removeFailed, ui>>

\* lines 216-217: the file is created (delete=False), then getvalue() or
\* tmp.write raises; the with block closes the file and keeps it, and
\* line 218 is never reached
TempWriteFails ==
    /\ pc = "single_temp"
    /\ tempFiles' = tempFiles \cup {"tmp"}
    /\ pending' = TRUE
    /\ pc' = "single_except"
    /\ UNCHANGED <<inputs, dirVars, valid_output_dir, outputDirMade, calls,
                   outFiles, escaped, status_text_bound, temp_file_path,
                   removeFailed, ui>>

\* lines 216-221: the file is created, written and its path recorded
TempCreated ==
    /\ pc = "single_temp"
    /\ tempFiles' = tempFiles \cup {"tmp"}
    /\ temp_file_path' = <<"tmp">>
    /\ pc' = "single_convert"
    /\ UNCHANGED <<inputs, dirVars, valid_output_dir, outputDirMade, calls,
                   outFiles, escaped, status_text_bound, removeFailed,
                   pending, ui>>

\* lines 226-244: both codec calls return
SingleConvertOk ==
    /\ pc = "single_convert"
    /\ calls' = Append(calls, [file |-> temp_file_path, raised |-> "none"])
    /\ outFiles' = outFiles \cup {OutputFilename(uploaded_file)}
    /\ Say("success: converted")
    /\ pc' = "single_finally"
    /\ UNCHANGED <<inputs, dirVars, singleVars, valid_output_dir,
                   outputDirMade, escaped>>

\* lines 226 or 234, then 247: one of the two codec calls raises
SingleConvertFails ==
    /\ pc = "single_convert"
    /\ \E raised \in {"read_xport", "write_sas7bdat"} :
           calls' = Append(calls, [file |-> temp_file_path, raised |-> raised])
    /\ pending' = TRUE
    /\ pc' = "single_except"
    /\ UNCHANGED <<inputs, dirVars, valid_output_dir, outputDirMade,
                   outFiles, escaped, status_text_bound, temp_file_path,
                   tempFiles, removeFailed, ui>>

\* lines 247-256: status_text.empty() is a NameError when status_text is
\* not bound; the new exception leaves the handler after the finally clause
SingleExcept ==
    /\ pc = "single_except"
    /\ IF status_text_bound
       THEN /\ Say("error: converting")
            /\ pending' = FALSE
            /\ UNCHANGED escaped
       ELSE /\ escaped' = TRUE
            /\ UNCHANGED <<pending, ui>>
    /\ pc' = "single_finally"
    /\ UNCHANGED <<inputs, dirVars, valid_output_dir, outputDirMade, calls,
                   outFiles, status_text_bound, temp_file_path, tempFiles,
                   removeFailed>>

\* lines 257-263
SingleFinally ==
    /\ pc = "single_finally"
    /\ IF temp_file_path # None /\ "tmp" \in tempFiles
       THEN \E removed \in BOOLEAN :
                IF removed
                THEN /\ tempFiles' = tempFiles \ {"tmp"}
                     /\ UNCHANGED <<removeFailed, ui>>
                ELSE /\ removeFailed' = TRUE
                     /\ Say("warning: could not remove temporary file")
                     /\ UNCHANGED tempFiles
       ELSE UNCHANGED <<tempFiles, removeFailed, ui>>
    /\ pc' = "done"
    /\ UNCHANGED <<inputs, dirVars, valid_output_dir, outputDirMade, calls,
                   outFiles, escaped, status_text_bound, temp_file_path,
                   pending>>

\* ---------------------------------------------------------- specification
Next ==
    \/ OutputDirMissing
    \/ OutputDirCreated
    \/ OutputDirInvalid
    \/ InputDirMissing
    \/ InputDirNotADirectory
    \/ InputDirValid
    \/ GlobFails
    \/ NoFilesFound
    \/ FilesFound
    \/ ConvertItemOk
    \/ ConvertItemFails
    \/ Summary
    \/ NoUpload
    \/ UploadPresent
    \/ SingleMkdirFails
    \/ SinglePrepare
    \/ TempCreateFails
    \/ TempWriteFails
    \/ TempCreated
    \/ SingleConvertOk
    \/ SingleConvertFails
    \/ SingleExcept
    \/ SingleFinally

Spec == Init /\ [][Next]_vars

\* ------------------------------------------------- vocabulary of claims
ErrorMessages ==
    {"error: output directory required", "error: invalid output directory",
     "error: input directory required", "error: input path is not a directory",
     "error: unexpected error during directory conversion",
     "error: no xpt files found", "error: converting",
     "error: files with errors", "error: upload required"}

ErrorShown == \E k \in 1..Len(ui) : ui[k] \in ErrorMessages

DirectoryMode == conversion_mode = "Convert Directory"

LoopEntered == DirectoryMode /\ pc \in {"loop", "summary", "done"} /\ xpt_files # <<>>

Raised(k) == calls[k].raised # "none"

\* characters in code-point order, and str.lower on them
Alphabet == <<".", "A", "P", "T", "X", "a", "b", "d", "h", "n", "p", "t", "v", "x">>

CharCode(c) == CHOOSE k \in 1..Len(Alphabet) : Alphabet[k] = c

LowerChar(c) ==
    CASE c = "A" -> "a" [] c = "P" -> "p" [] c = "T" -> "t" [] c = "X" -> "x"
      [] OTHER -> c

Fold(name) == [k \in 1..Len(name) |-> LowerChar(name[k])]

RECURSIVE LexLess(_, _)
LexLess(a, b) ==
    IF b = <<>> THEN FALSE
    ELSE IF a = <<>> THEN TRUE
    ELSE IF a[1] # b[1] THEN CharCode(a[1]) < CharCode(b[1])
    ELSE LexLess(Tail(a), Tail(b))

\* the extension, the text after the last dot, is xpt ignoring case
HasXptExtension(name) ==
    /\ LastDot(name) > 0
    /\ Fold(SubSeq(name, LastDot(name) + 1, Len(name))) = <<"x", "p", "t">>

Selected(name) == \E k \in 1..Len(xpt_files) : xpt_files[k] = name

\* ------------------------------------------------------------------ claims

\* C1: in directory mode every file of the resolved list has its conversion
\* attempted, in list order, whatever earlier files' conversions raised: after
\* k iterations the codec calls are exactly the first k files, and the loop
\* only ends after the last file.
C1_EveryItemAttempted ==
    LoopEntered =>
        /\ Len(calls) = i
        /\ \A k \in 1..Len(calls) : calls[k].file = xpt_files[k]
        /\ pc \in {"summary", "done"} => i = Len(xpt_files)

C1_Witness ==
    /\ LoopEntered /\ pc = "done"
    /\ Len(calls) >= 2
    /\ Raised(1)
    /\ calls[2].file = xpt_files[2]

\* C2: in directory mode success_count + error_count equals the number of
\* completed iterations, and equals len(xpt_files) when the summary is
\* produced; each item is counted in exactly one counter.
C2_CountsPartition ==
    LoopEntered =>
        /\ success_count + error_count = i
        /\ success_count = Cardinality({k \in 1..Len(calls) : ~Raised(k)})
        /\ error_count = Cardinality({k \in 1..Len(calls) : Raised(k)})
        /\ pc \in {"summary", "done"} =>
               success_count + error_count = Len(xpt_files)

C2_Witness ==
    /\ LoopEntered /\ pc = "done"
    /\ success_count >= 1
    /\ error_count >= 1

\* C3: the resolved list is in case-insensitive lexicographic order of name
\* whatever the enumeration order; {b.xpt, A.xpt, a.XPT} resolves to
\* A.xpt, a.XPT, b.xpt.
C3_ResolverOrder ==
    (globbed /\ \A k \in 1..Len(xpt_files) : HasXptExtension(xpt_files[k])) =>
        /\ \A j, k \in 1..Len(xpt_files) :
               j < k => ~LexLess(Fold(xpt_files[k]), Fold(xpt_files[j]))
        /\ {dirEntries[k] : k \in 1..Len(dirEntries)} = {N_b, N_A, N_a}
               => xpt_files = <<N_A, N_a, N_b>>

\* C4: in directory mode, when the input path is empty or is not an existing
\* directory, no codec call is made and the press ends with an error shown
\* (the input error when the output directory was accepted).
C4_BadInputNoCodec ==
    (DirectoryMode /\ (input_dir_str = "" \/ inputKind # "dir")) =>
        /\ calls = <<>>
        /\ pc = "done" => ErrorShown
        /\ (pc = "done" /\ valid_output_dir) =>
               ui[Len(ui)] \in {"error: input directory required",
                                "error: input path is not a directory"}

C4_Witness ==
    /\ DirectoryMode /\ pc = "done" /\ valid_output_dir
    /\ input_dir_str # "" /\ inputKind # "dir"
    /\ ErrorShown

C6_TempFileRemoved ==
    (~DirectoryMode /\ pc = "done" /\ ~removeFailed) => tempFiles = {}

\* C7: no exception raised while an item is processed leaves the handler;
\* each ends in a reported error (an error entry per failed file in
\* directory mode, a displayed error in single-file mode).
C7_ErrorsCaught ==
    /\ ~escaped
    /\ pc = "done" => ~pending
    /\ LoopEntered =>
           Len(error_details) = Cardinality({k \in 1..Len(calls) : Raised(k)})

\* C8: a directory entry is selected if and only if its extension, the text
\* after the last dot, is xpt ignoring case.
C8_ExtensionMatch ==
    globbed =>
        \A k \in 1..Len(dirEntries) :
            Selected(dirEntries[k]) <=> HasXptExtension(dirEntries[k])

\* C9: after a directory batch in which every item succeeds, the number of
\* distinct output files equals success_count, for every list of distinct
\* input names.
C9_OutputsOneToOne ==
    (LoopEntered /\ pc = "done" /\ error_count = 0
        /\ \A k \in 1..Len(xpt_files) : HasXptExtension(xpt_files[k]))
    => Cardinality(outFiles) = success_count

\* C10: while the output directory has not been created in this press (field
\* empty, or mkdir raised) nothing else happens: no input validation, no file
\* resolution, no temporary file, no codec call, and the press ends with
\* exactly the output-directory error; every codec call follows a successful
\* creation.
C10_OutputDirFirst ==
    /\ ~outputDirMade =>
           /\ pc \in {"validate_output", "done"}
           /\ ~valid_input_dir /\ ~globbed /\ xpt_files = <<>>
           /\ tempFiles = {} /\ temp_file_path = None /\ ~status_text_bound
           /\ calls = <<>> /\ outFiles = {}
           /\ pc = "done" =>
                  ui = <<IF output_dir_str = ""
                         THEN "error: output directory required"
                         ELSE "error: invalid output directory">>
    /\ calls # <<>> => (outputDirMade /\ valid_output_dir)

C10_Witness ==
    /\ pc = "done"
    /\ output_dir_str # ""
    /\ ~outputDirMade
    /\ ui = <<"error: invalid output directory">>

====
